---- MODULE Spec2Model ----
(***************************************************************************)
(* Model of the two pipelines of collection-bioimage-io:                   *)
(*   scripts/update_external_resources.py  (ingest: archive scan, merge    *)
(*       of new versions into resource records, selection of updates)      *)
(*   scripts/generate_collection_rdf.py    (aggregation of the accepted    *)
(*       resources into the collection document)                           *)
(***************************************************************************)
EXTENDS Integers, Sequences, FiniteSets, TLC

VARIABLES
    \* ---- update_external_resources.py: update_from_zenodo ----
    collection,         \* collection/<doi>/resource.yaml : record or NoRecord
    dist,               \* dist/<doi>/resource.yaml       : record or NoRecord
    updated_resources,  \* the defaultdict, as its items() in insertion order
    page,               \* loop variable of `for page in range(1, 10)`
    pc,                 \* position in the script
    requests,           \* page requests sent so far
    status_code,        \* r.status_code of the last page request
    n_hits,             \* len(hits) of the last page fetched
    remaining,          \* hits of that page not yet iterated
    call,               \* arguments of the last update_resource call
    result,             \* what the last update_resource call returned
    \* ---- update_external_resources.py: main, after the scan ----
    max_resource_count,        \* CLI parameter
    oldest_updated_resources,  \* the sorted items
    limited_updated_resources, \* the dict of the updates to open, as its items()
    remote_branches,           \* existing origin/auto-update-* branches
    \* ---- generate_collection_rdf.py: main ----
    gh_remote_branches,        \* remote_branches: what `git branch -r` lists
    attachments,               \* rdf["attachments"]: a bucket per type
    n_accepted,                \* accepted resources per type (0: no key)
    n_accepted_versions,       \* accepted resource versions per type (0: no key)
    processed_gh_pages_previews,
    known_idx,                 \* known_resources iterated so far
    r,                         \* the resource.yaml loaded last
    gh_pages,                  \* rdf.yaml of r's versions in dist/gh-pages
    gh_pages_previews,         \* the same in r's preview worktree, before the move
    latest_version,            \* latest_version after the loop over r's versions
    step_output                \* rdf["config"] counts and the step outputs set last

ingest_vars == <<collection, dist, updated_resources, page, pc, requests,
                 status_code, n_hits, remaining, call, result>>
select_vars == <<max_resource_count, oldest_updated_resources,
                 limited_updated_resources, remote_branches>>
agg_vars == <<gh_remote_branches, attachments, n_accepted, n_accepted_versions,
              processed_gh_pages_previews, known_idx, r, gh_pages, gh_pages_previews,
              latest_version, step_output>>
vars == <<ingest_vars, select_vars, agg_vars>>

-----------------------------------------------------------------------------
\* Bounds of the model

\* hits one page of the archive returns at most
MaxHitsPerPage == 1

\* concept DOIs known to the archive / the collection
ResourceIds == {"r1"}
\* hit["id"] of the records the archive holds for the concept
HitIds == {1, 2}
\* A record of the archive has one creation time: hit["created"] of record id.
\* Records are numbered in the order of their creation.
created_of(id) == id
\* links of the files named rdf.yaml, in lexicographic order
UrlOrder == <<"u1">>
Urls == {UrlOrder[i] : i \in 1..Len(UrlOrder)}
Owners == {"o1", "o2"}

\* a path that does not exist
NoRecord == [status |-> "NoRecord"]
NoOwners == "NoOwners"
NoCall == [resource_id |-> "NoCall"]

-----------------------------------------------------------------------------
\* update_external_resources.py

\* mutant of LastPage: range(1, 11)
LastPagePlusOne == 9 + 1

\* range(1, 10): pages 1..9
LastPage == 9

\* version_id = f"'{hit['id']}'"
version_id_of(id) == "'" \o ToString(id) \o "'"

\* rdf_source = sorted(rdf_urls)[0] if rdf_urls else "unknown"
rdf_source_of(rdf_urls) ==
    IF rdf_urls = {} THEN "unknown"
    ELSE UrlOrder[CHOOSE i \in 1..Len(UrlOrder) :
                     /\ UrlOrder[i] \in rdf_urls
                     /\ \A j \in 1..(i - 1) : UrlOrder[j] \notin rdf_urls]

\* resource_type: "unknown" without an rdf.yaml file or when fetching it fails,
\* else rdf.get("type")
resource_type_of(rdf_urls, rdf_type) ==
    IF rdf_urls = {} \/ rdf_type = "fetch_failed" THEN "unknown" ELSE rdf_type

\* A hit of the archive: the fields update_from_zenodo reads that reach the
\* resource record's state (doi, name and version_name are passed through).
Hits ==
    [conceptdoi : ResourceIds, id : HitIds,
     rdf_urls : SUBSET Urls, rdf_type : {"model", "fetch_failed"},
     owners : Owners]

\* the new_version dict built from a hit (lines 138-147)
new_version_of(hit) ==
    [version_id |-> version_id_of(hit.id),
     created    |-> created_of(hit.id),
     rdf_source |-> rdf_source_of(hit.rdf_urls),
     owners     |-> hit.owners]

\* new_version after `del new_version["owners"]`
without_owners(v) ==
    [version_id |-> v.version_id, created |-> v.created, rdf_source |-> v.rdf_source]

\* list.insert at the right place of a list sorted by created, descending,
\* behind every entry that does not compare smaller (stable)
insert_desc(s, v) ==
    LET k == Cardinality({i \in 1..Len(s) : s[i].created >= v.created})
    IN SubSeq(s, 1, k) \o <<v>> \o SubSeq(s, k + 1, Len(s))

\* mutant of sort_created_desc: the sort is left out
sort_left_out(s) == s

\* versions.sort(key=lambda v: v["created"], reverse=True): a stable sort,
\* entries with equal keys keep their order
RECURSIVE sort_created_desc(_)
sort_created_desc(s) ==
    IF s = <<>> THEN <<>>
    ELSE insert_desc(sort_created_desc(SubSeq(s, 1, Len(s) - 1)), s[Len(s)])

\* mutant of is_known: only the latest known version is compared
is_known_latest_only(versions, version_id, new_version) ==
    /\ versions # <<>>
    /\ versions[1].version_id = version_id
    /\ new_version.rdf_source = versions[1].rdf_source

\* the scan of the known versions for the fetched one (lines 42-47)
is_known(versions, version_id, new_version) ==
    \E idx \in 1..Len(versions) :
        /\ versions[idx].version_id = version_id
        /\ new_version.rdf_source = versions[idx].rdf_source

\* mutant of is_blocked: the status check is left out
is_blocked_never(resource) == FALSE

\* `resource["status"] == "blocked"` (line 33)
is_blocked(resource) == resource.status = "blocked"

\* update_resource: what it returns and the record at resource_output_path
\* afterwards.  ret is "blocked", "old_hit", "resource" (the dict returned),
\* "ValueError" or "AssertionError" (raised).
update_resource(resource_path, resource_id, resource_type, resource_doi, version_id, new_version, resource_output_path) ==
    LET path == IF resource_output_path # NoRecord THEN resource_output_path
                ELSE resource_path
    IN IF path # NoRecord
       THEN IF is_blocked(path)
            THEN [ret |-> "blocked", out |-> resource_output_path]
            ELSE IF path.status \notin {"accepted", "pending"}
            THEN [ret |-> "ValueError", out |-> resource_output_path]
            ELSE IF path.versions = <<>>
            THEN [ret |-> "AssertionError", out |-> resource_output_path]
            ELSE IF is_known(path.versions, version_id, new_version)
            THEN [ret |-> "old_hit", out |-> resource_output_path]
            ELSE [ret |-> "resource",
                  out |-> [status   |-> path.status,
                           versions |-> sort_created_desc(
                                          <<without_owners(new_version)>> \o path.versions),
                           id       |-> path.id,
                           doi      |-> path.doi,
                           type     |-> resource_type,
                           owners   |-> new_version.owners]]
       ELSE [ret |-> "resource",
             out |-> [status   |-> "accepted",
                      versions |-> <<without_owners(new_version)>>,
                      id       |-> resource_id,
                      doi      |-> resource_doi,
                      type     |-> resource_type,
                      owners   |-> new_version.owners]]

\* mutant of is_new_version: only blocked resources are skipped
is_new_version_unless_blocked(resource) == resource # "blocked"

\* `resource not in ("blocked", "old_hit")` (line 157)
is_new_version(resource) == resource \notin {"blocked", "old_hit"}

\* update_with_new_version: updated_resources[resource_id].append(new_version)
update_with_new_version(new_version, resource_id, updated) ==
    IF \E i \in 1..Len(updated) : updated[i][1] = resource_id
    THEN [i \in 1..Len(updated) |->
            IF updated[i][1] = resource_id
            THEN <<resource_id, Append(updated[i][2], new_version)>>
            ELSE updated[i]]
    ELSE Append(updated, <<resource_id, <<new_version>> >>)

-----------------------------------------------------------------------------
\* Initial state

Statuses == {"accepted", "pending", "blocked", "deleted"}

InitVersions ==
    {[version_id |-> version_id_of(id), created |-> created_of(id), rdf_source |-> src] :
        id \in HitIds, src \in {"unknown"} \cup Urls}

is_sorted_desc(s) == \A i \in 1..(Len(s) - 1) : s[i].created >= s[i + 1].created
unique_version_ids(s) ==
    \A i, j \in 1..Len(s) : i # j => s[i].version_id # s[j].version_id

\* version lists of a canonical record: one or two versions with different
\* version ids, latest first
InitVersionLists ==
    {<<v>> : v \in InitVersions}
    \cup {s \in {<<v, w>> : v, w \in InitVersions} :
             is_sorted_desc(s) /\ unique_version_ids(s)}

InitRecords(id) ==
    [status : Statuses, versions : InitVersionLists, id : {id}, doi : {id},
     type : {"model"}, owners : {NoOwners}]

IngestInit ==
    /\ collection \in {c \in [ResourceIds -> UNION {InitRecords(id) : id \in ResourceIds}
                                             \cup {NoRecord}] :
                          \A id \in ResourceIds : c[id] = NoRecord \/ c[id].id = id}
    /\ dist = [id \in ResourceIds |-> NoRecord]
    /\ updated_resources = <<>>
    /\ page = 1
    /\ pc = "request"
    /\ requests = 0
    /\ status_code = 0
    /\ n_hits = 0
    /\ remaining = 0
    /\ call = NoCall
    /\ result = "none"

\* main before line 172
SelectIdle ==
    /\ max_resource_count = 3
    /\ oldest_updated_resources = <<>>
    /\ limited_updated_resources = <<>>
    /\ remote_branches = {}

\* generate_collection_rdf.py is not running
AggIdle ==
    /\ gh_remote_branches = {}
    /\ attachments = <<>>
    /\ n_accepted = <<>>
    /\ n_accepted_versions = <<>>
    /\ processed_gh_pages_previews = <<>>
    /\ known_idx = 0
    /\ r = [status |-> "NoRecord"]
    /\ gh_pages = <<>>
    /\ gh_pages_previews = <<>>
    /\ latest_version = [kind |-> "None"]
    /\ step_output = [kind |-> "None"]

Init == IngestInit /\ SelectIdle /\ AggIdle

-----------------------------------------------------------------------------
\* update_from_zenodo

\* requests.get of a page that answers with a status other than 200: break
PageNotOk ==
    /\ pc = "request"
    /\ page <= LastPage
    /\ requests' = requests + 1
    /\ status_code' = 500
    /\ pc' = "scanned"
    /\ UNCHANGED <<collection, dist, updated_resources, page, n_hits, remaining,
                   call, result, select_vars, agg_vars>>

\* a page answered with status 200
PageOk ==
    /\ pc = "request"
    /\ page <= LastPage
    /\ requests' = requests + 1
    /\ status_code' = 200
    /\ \E n \in 0..MaxHitsPerPage :
          /\ n_hits' = n
          /\ remaining' = n
          \* `if not hits: break`
          /\ pc' = IF n = 0 THEN "scanned" ELSE "hits"
    /\ UNCHANGED <<collection, dist, updated_resources, page, call, result,
                   select_vars, agg_vars>>

\* range(1, 10) is exhausted
PagesExhausted ==
    /\ pc = "request"
    /\ page > LastPage
    /\ pc' = "scanned"
    /\ UNCHANGED <<collection, dist, updated_resources, page, requests, status_code,
                   n_hits, remaining, call, result, select_vars, agg_vars>>

\* one iteration of `for hit in hits` (lines 110-159)
MergeHit ==
    /\ pc = "hits"
    /\ remaining > 0
    /\ \E hit \in Hits :
          LET resource_doi == hit.conceptdoi
              new_version  == new_version_of(hit)
              resource == update_resource(collection[resource_doi], resource_doi,
                                          resource_type_of(hit.rdf_urls, hit.rdf_type),
                                          resource_doi, new_version.version_id, new_version,
                                          dist[resource_doi])
          IN /\ call' = [resource_id |-> resource_doi,
                         version_id  |-> new_version.version_id,
                         rdf_source  |-> new_version.rdf_source]
             /\ result' = resource.ret
             /\ dist' = [dist EXCEPT ![resource_doi] = resource.out]
             /\ IF resource.ret \in {"ValueError", "AssertionError"}
                THEN \* the exception leaves update_from_zenodo and main
                     /\ pc' = "raised"
                     /\ UNCHANGED <<page, remaining, updated_resources>>
                ELSE /\ updated_resources' =
                           IF is_new_version(resource.ret)
                           THEN update_with_new_version(without_owners(new_version),
                                                        resource_doi, updated_resources)
                           ELSE updated_resources
                     /\ remaining' = remaining - 1
                     /\ page' = IF remaining = 1 THEN page + 1 ELSE page
                     /\ pc' = IF remaining = 1 THEN "request" ELSE "hits"
    /\ UNCHANGED <<collection, requests, status_code, n_hits, select_vars, agg_vars>>

Next ==
    \/ PageNotOk
    \/ PageOk
    \/ PagesExhausted
    \/ MergeHit

Spec == Init /\ [][Next]_vars

-----------------------------------------------------------------------------
\* main, lines 171-189: the selection of the resources to open an update for

\* `created` of the new versions handed to the selection is in 1..MaxNewCreated
MaxNewCreated == 2

\* resource ids of the updated resources, in lexicographic order
UpdatedIdOrder == <<"r1", "r2", "r3">>
UpdatedIds == {UpdatedIdOrder[i] : i \in 1..Len(UpdatedIdOrder)}
id_rank(id) == CHOOSE i \in 1..Len(UpdatedIdOrder) : UpdatedIdOrder[i] = id

\* mutant of min_created: the first new version is taken for the oldest
first_created(versions) == versions[1].created

\* min([vv["created"] for vv in kv[1]])
min_created(versions) ==
    CHOOSE c \in {versions[i].created : i \in 1..Len(versions)} :
        \A i \in 1..Len(versions) : c <= versions[i].created

\* the sort key (min created, resource id) of a compares <= that of b
key_leq(a, b) ==
    \/ min_created(a[2]) < min_created(b[2])
    \/ (min_created(a[2]) = min_created(b[2]) /\ id_rank(a[1]) <= id_rank(b[1]))

insert_by_key(s, kv) ==
    LET k == Cardinality({i \in 1..Len(s) : key_leq(s[i], kv)})
    IN SubSeq(s, 1, k) \o <<kv>> \o SubSeq(s, k + 1, Len(s))

\* sorted(updated_resources.items(), key=...)
RECURSIVE sorted_oldest_first(_)
sorted_oldest_first(items) ==
    IF items = <<>> THEN <<>>
    ELSE insert_by_key(sorted_oldest_first(SubSeq(items, 1, Len(items) - 1)),
                       items[Len(items)])

\* oldest_updated_resources[:max_resource_count], for a count >= 0
limited_to(items, count) ==
    SubSeq(items, 1, IF count < Len(items) THEN count ELSE Len(items))

\* f"origin/auto-update-{k}"
auto_update_branch(k) == "origin/auto-update-" \o k

\* what `git branch -r` may list
RemoteBranchNames == {"origin/main"} \cup {auto_update_branch(k) : k \in UpdatedIds}

\* rb.startswith("origin/auto-update-")
is_auto_update_branch(rb) == rb \in {auto_update_branch(k) : k \in UpdatedIds}

\* {k: v for k, v in limited.items() if f"origin/auto-update-{k}" not in remote_branches}
without_pending(items, branches) ==
    SelectSeq(items, LAMBDA kv : auto_update_branch(kv[1]) \notin branches)

\* the new versions of one updated resource: one or two, in the order merged
NewVersionLists ==
    LET nv(id, c) == [version_id |-> version_id_of(id), created |-> c,
                      rdf_source |-> "unknown"]
    IN {<<nv(1, c)>> : c \in 1..MaxNewCreated}
       \cup {<<nv(1, c), nv(2, d)>> : c \in 1..MaxNewCreated, d \in 1..MaxNewCreated}

\* updated_resources after the scan: each resource at most once, in any order
UpdatedItems ==
    LET n == Len(UpdatedIdOrder)
        pairs == UNION {{<<rid, vs>> : vs \in NewVersionLists} : rid \in UpdatedIds}
    IN UNION {{s \in [1..k -> pairs] :
                  \A i, j \in 1..k : i # j => s[i][1] # s[j][1]} : k \in 0..n}

\* line 172
SortOldestFirst ==
    /\ pc = "scanned"
    /\ oldest_updated_resources' = sorted_oldest_first(updated_resources)
    /\ pc' = "sorted"
    /\ UNCHANGED <<collection, dist, updated_resources, page, requests, status_code,
                   n_hits, remaining, call, result, max_resource_count,
                   limited_updated_resources, remote_branches, agg_vars>>

\* line 177
LimitCount ==
    /\ pc = "sorted"
    /\ limited_updated_resources' = limited_to(oldest_updated_resources, max_resource_count)
    /\ pc' = "limited"
    /\ UNCHANGED <<collection, dist, updated_resources, page, requests, status_code,
                   n_hits, remaining, call, result, max_resource_count,
                   oldest_updated_resources, remote_branches, agg_vars>>

\* lines 182-189
RemovePending ==
    /\ pc = "limited"
    /\ \E stdout \in SUBSET RemoteBranchNames :
          /\ remote_branches' = {rb \in stdout : is_auto_update_branch(rb)}
          /\ limited_updated_resources' =
                 without_pending(limited_updated_resources, remote_branches')
    /\ pc' = "selected"
    /\ UNCHANGED <<collection, dist, updated_resources, page, requests, status_code,
                   n_hits, remaining, call, result, max_resource_count,
                   oldest_updated_resources, agg_vars>>

\* the scan is over, with some resources updated
SelectInit ==
    /\ collection = [id \in ResourceIds |-> NoRecord]
    /\ dist = [id \in ResourceIds |-> NoRecord]
    /\ updated_resources \in UpdatedItems
    /\ page = 1
    /\ pc = "scanned"
    /\ requests = 1
    /\ status_code = 500
    /\ n_hits = 0
    /\ remaining = 0
    /\ call = NoCall
    /\ result = "none"
    /\ max_resource_count \in 0..Len(UpdatedIdOrder)
    /\ oldest_updated_resources = <<>>
    /\ limited_updated_resources = <<>>
    /\ remote_branches = {}
    /\ AggIdle

NextSelect ==
    \/ SortOldestFirst
    \/ LimitCount
    \/ RemovePending

SpecSelect == SelectInit /\ [][NextSelect]_vars

-----------------------------------------------------------------------------
\* generate_collection_rdf.py

\* resource.yaml files in the collection
NumKnown == 1

\* list(collection_path.glob("**/resource.yaml")), by resource id
known_resources == [i \in 1..NumKnown |-> "r" \o ToString(i)]

\* f"gh-pages-auto-update-{r['resource_id']}"
preview_branch_of(resource_id) == "gh-pages-auto-update-" \o resource_id

\* f"origin/{preview_branch}" in remote_branches
from_preview_of(resource_id, branches) ==
    ("origin/" \o preview_branch_of(resource_id)) \in branches

\* version ids are distinct within a resource and between resources
agg_version_id(resource_id, i) == resource_id \o "/" \o ToString(i)

None == [kind |-> "None"]
\* the `type` of an rdf.yaml, if it has one; "unknown" is the default of
\* latest_version.get("type", "unknown")
NoType == "NoType"
Types == {"model", "unknown"}

\* What is at <location>/resources/<version_id>/rdf.yaml: nothing
\* ("missing"), a document that is not a mapping ("scalar"), or a mapping
\* ("dict") with or without a `type`.  `rdf` names the document by the place
\* it was published at, to tell the documents apart.
content_at(location, version_id, kind, type) ==
    [kind |-> kind,
     type |-> IF kind = "dict" THEN type ELSE NoType,
     rdf  |-> <<location, version_id>>]

\* lines 65-79: the content at v_path for the i-th version.  With a preview
\* branch v_path is the preview's rdf.yaml, moved to gh-pages-update if it
\* exists; without one it is the rdf.yaml in gh-pages.
content_at_v_path(i, from_preview, canonical, preview) ==
    IF from_preview THEN preview[i] ELSE canonical[i]

\* lines 66-70: the preview holds the version and is recorded as processed
in_preview(i, from_preview, preview) ==
    from_preview /\ preview[i].kind # "missing"

\* mutant of with_version: a later version is put in front of the previous ones
with_version_in_front(latest, this_version, resource_id) ==
    IF latest = None
    THEN [kind |-> "dict", type |-> this_version.type, rdf |-> this_version.rdf,
          resource_id |-> resource_id, previous_versions |-> <<>>]
    ELSE [latest EXCEPT !.previous_versions = <<this_version>> \o @]

\* lines 102-107, this_version being a mapping
with_version(latest, this_version, resource_id) ==
    IF latest = None
    THEN [kind |-> "dict", type |-> this_version.type, rdf |-> this_version.rdf,
          resource_id |-> resource_id, previous_versions |-> <<>>]
    ELSE [latest EXCEPT !.previous_versions = Append(@, this_version)]

\* lines 60-107: the loop over r["versions"] from the i-th on; acc holds
\* latest_version and processed_gh_pages_previews
RECURSIVE versions_loop(_, _, _, _, _, _, _)
versions_loop(versions, i, resource_id, from_preview, canonical, preview, acc) ==
    IF i > Len(versions) THEN acc
    ELSE LET this_version == content_at_v_path(i, from_preview, canonical, preview)
             processed ==
                 IF in_preview(i, from_preview, preview)
                 THEN Append(acc.processed, preview_branch_of(resource_id))
                 ELSE acc.processed
             next ==
                 IF versions[i].status # "accepted" THEN acc
                 ELSE IF this_version.kind # "dict"
                 THEN [latest_version |-> acc.latest_version, processed |-> processed]
                 ELSE [latest_version |->
                           with_version(acc.latest_version, this_version, resource_id),
                       processed |-> processed]
         IN versions_loop(versions, i + 1, resource_id, from_preview, canonical,
                          preview, next)

\* latest_version.get("type", "unknown")
type_of(latest) == IF latest.type = NoType THEN "unknown" ELSE latest.type

\* 1 + len(latest_version["previous_versions"])
versions_counted(latest) == 1 + Len(latest.previous_versions)

\* a bucket of rdf["attachments"]: no key ("absent"), None, or a list
bucket(kind, items) == [kind |-> kind, items |-> items]

\* lines 112-116: attachments[type_] = attachments.get(type_), and the append
attachments_with(att, latest) ==
    LET type_ == type_of(latest)
    IN IF att[type_].kind = "list"
       THEN [att EXCEPT ![type_] = bucket("list", Append(@.items, latest))]
       ELSE [att EXCEPT ![type_] = bucket("None", <<>>)]

\* One version of a resource.yaml and what is published for it.  Without a
\* preview branch there is no preview content; the content of a version that
\* is not accepted is never looked at.
VersionInputs(from_preview) ==
    {[status |-> "accepted", canonical |-> c, preview |-> p] :
        c \in IF from_preview THEN {"missing", "dict"} ELSE {"missing", "scalar", "dict"},
        p \in IF from_preview THEN {"missing", "dict"} ELSE {"missing"}}
    \cup {[status |-> "pending", canonical |-> "missing", preview |-> "missing"]}

\* the versions of a resource.yaml: one to three
lists_over(V) ==
    {<<a>> : a \in V} \cup {<<a, b>> : a \in V, b \in V}
    \cup {<<a, b, c>> : a \in V, b \in V, c \in V}
InputListsWithPreview == lists_over(VersionInputs(TRUE))
InputListsWithoutPreview == lists_over(VersionInputs(FALSE))
VersionInputLists(from_preview) ==
    IF from_preview THEN InputListsWithPreview ELSE InputListsWithoutPreview

\* the rdf.yaml files of one resource carry one type, or none
RdfTypes == {"model", NoType}

AggInit ==
    /\ gh_remote_branches \in
          SUBSET {"origin/" \o preview_branch_of(known_resources[i]) :
                     i \in 1..Len(known_resources)}
    /\ attachments \in [Types -> {bucket("absent", <<>>), bucket("list", <<>>)}]
    /\ n_accepted = [t \in Types |-> 0]
    /\ n_accepted_versions = [t \in Types |-> 0]
    /\ processed_gh_pages_previews = <<>>
    /\ known_idx = 0
    /\ r = [status |-> "NoRecord"]
    /\ gh_pages = <<>>
    /\ gh_pages_previews = <<>>
    /\ latest_version = None
    /\ step_output = None
    \* update_external_resources.py is not running
    /\ collection = [id \in ResourceIds |-> NoRecord]
    /\ dist = [id \in ResourceIds |-> NoRecord]
    /\ updated_resources = <<>>
    /\ page = 1
    /\ pc = "off"
    /\ requests = 0
    /\ status_code = 0
    /\ n_hits = 0
    /\ remaining = 0
    /\ call = NoCall
    /\ result = "none"
    /\ SelectIdle

\* lines 46-49: a resource that is not accepted
SkipResource ==
    /\ pc = "off"
    /\ step_output = None
    /\ known_idx < Len(known_resources)
    /\ \E status \in {"pending", "blocked"} :
          r' = [status |-> status, resource_id |-> known_resources[known_idx + 1],
                versions |-> <<>>]
    /\ gh_pages' = <<>>
    /\ gh_pages_previews' = <<>>
    /\ known_idx' = known_idx + 1
    /\ UNCHANGED <<gh_remote_branches, attachments, n_accepted, n_accepted_versions,
                   processed_gh_pages_previews, latest_version, step_output,
                   ingest_vars, select_vars>>

\* lines 46-122: an accepted resource
AggregateResource ==
    /\ pc = "off"
    /\ step_output = None
    /\ known_idx < Len(known_resources)
    /\ LET resource_id  == known_resources[known_idx + 1]
           from_preview == from_preview_of(resource_id, gh_remote_branches)
       IN \E inputs \in VersionInputLists(from_preview), type \in RdfTypes :
            LET versions ==
                    [i \in 1..Len(inputs) |->
                        [version_id |-> agg_version_id(resource_id, i),
                         status |-> inputs[i].status]]
                canonical ==
                    [i \in 1..Len(inputs) |->
                        content_at("gh-pages", versions[i].version_id,
                                   inputs[i].canonical, type)]
                preview ==
                    [i \in 1..Len(inputs) |->
                        content_at("preview", versions[i].version_id,
                                   inputs[i].preview, type)]
                acc == versions_loop(versions, 1, resource_id, from_preview,
                                     canonical, preview,
                                     [latest_version |-> None,
                                      processed |-> processed_gh_pages_previews])
                latest == acc.latest_version
            IN /\ r' = [status |-> "accepted", resource_id |-> resource_id,
                        versions |-> versions]
               /\ gh_pages' = canonical
               /\ gh_pages_previews' = preview
               /\ latest_version' = latest
               /\ processed_gh_pages_previews' = acc.processed
               /\ IF latest = None
                  THEN UNCHANGED <<attachments, n_accepted, n_accepted_versions>>
                  ELSE /\ attachments' = attachments_with(attachments, latest)
                       /\ IF attachments[type_of(latest)].kind = "list"
                          THEN /\ n_accepted' =
                                     [n_accepted EXCEPT ![type_of(latest)] = @ + 1]
                               /\ n_accepted_versions' =
                                     [n_accepted_versions EXCEPT
                                         ![type_of(latest)] = @ + versions_counted(latest)]
                          ELSE UNCHANGED <<n_accepted, n_accepted_versions>>
    /\ known_idx' = known_idx + 1
    /\ UNCHANGED <<gh_remote_branches, step_output, ingest_vars, select_vars>>

\* lines 130-154: the counts and the step outputs
WriteOutputs ==
    /\ pc = "off"
    /\ step_output = None
    /\ known_idx = Len(known_resources)
    /\ step_output' =
          [kind |-> "written",
           n_resources |-> n_accepted,
           n_resource_versions |-> n_accepted_versions,
           processed_gh_pages_previews |-> processed_gh_pages_previews,
           processed_any_gh_pages_previews |->
               IF processed_gh_pages_previews # <<>> THEN "yes" ELSE "no"]
    /\ UNCHANGED <<gh_remote_branches, attachments, n_accepted, n_accepted_versions,
                   processed_gh_pages_previews, known_idx, r, gh_pages,
                   gh_pages_previews, latest_version, ingest_vars, select_vars>>

NextAgg ==
    \/ SkipResource
    \/ AggregateResource
    \/ WriteOutputs

SpecAgg == AggInit /\ [][NextAgg]_vars

-----------------------------------------------------------------------------
\* Properties of update_from_zenodo / update_resource (under Spec)

\* the record update_resource reads for a resource: the output record if it
\* exists, otherwise the canonical one
record_read(rid) == IF dist[rid] # NoRecord THEN dist[rid] ELSE collection[rid]

has_pair(versions, c) ==
    \E i \in 1..Len(versions) :
        versions[i].version_id = c.version_id /\ versions[i].rdf_source = c.rdf_source

no_duplicate_pairs(s) ==
    \A i, j \in 1..Len(s) :
        i # j => ~(s[i].version_id = s[j].version_id /\ s[i].rdf_source = s[j].rdf_source)

in_change_set(rid, c) ==
    \E i \in 1..Len(updated_resources) :
        updated_resources[i][1] = rid /\ has_pair(updated_resources[i][2], c)

\* C1: the persisted version list of a resource is sorted by `created`,
\* descending, after every update_resource call that inserts a version (the
\* output record is written by nothing else).
C1_SortedAfterInsert ==
    \A rid \in ResourceIds :
        dist[rid] # NoRecord => is_sorted_desc(dist[rid].versions)

\* an inserted version that is older than the known ones was moved behind them
C1_Witness ==
    \E rid \in ResourceIds :
        /\ dist[rid] # NoRecord
        /\ result = "resource"
        /\ Len(dist[rid].versions) >= 3
        /\ dist[rid].versions[1].created > dist[rid].versions[Len(dist[rid].versions)].created
        /\ call.version_id = dist[rid].versions[Len(dist[rid].versions)].version_id
        /\ call.rdf_source = dist[rid].versions[Len(dist[rid].versions)].rdf_source

\* C2: the persisted version list never holds two entries with equal
\* (version_id, rdf_source), also when a hit is merged again in the same run.
C2_NoDuplicatePairs ==
    \A rid \in ResourceIds :
        dist[rid] # NoRecord => no_duplicate_pairs(dist[rid].versions)

\* a version inserted in this run was fetched again and found to be known
C2_Witness ==
    \E rid \in ResourceIds :
        /\ dist[rid] # NoRecord
        /\ result = "old_hit"
        /\ call.resource_id = rid
        /\ in_change_set(rid, call)
        /\ Len(dist[rid].versions) >= 3

\* C3 as stated: a call with a (version_id, rdf_source) pair that the resource
\* record holds returns "old_hit" and changes neither the output record nor
\* the change-set.
C3_KnownPairIsOldHit ==
    [][(/\ pc = "hits"
        /\ record_read(call'.resource_id) # NoRecord
        /\ has_pair(record_read(call'.resource_id).versions, call'))
       => (/\ result' = "old_hit"
           /\ dist' = dist
           /\ updated_resources' = updated_resources)]_vars

\* C3, amended: the same for a resource whose record has status accepted or
\* pending (a blocked resource answers "blocked", another status raises).
C3_KnownPairIsOldHitUnlessBlocked ==
    [][(/\ pc = "hits"
        /\ record_read(call'.resource_id) # NoRecord
        /\ record_read(call'.resource_id).status \in {"accepted", "pending"}
        /\ has_pair(record_read(call'.resource_id).versions, call'))
       => (/\ result' = "old_hit"
           /\ dist' = dist
           /\ updated_resources' = updated_resources)]_vars

\* a known pair was fetched while an output record and a change-set exist
C3_Witness ==
    /\ result = "old_hit"
    /\ dist[call.resource_id] # NoRecord
    /\ has_pair(dist[call.resource_id].versions, call)
    /\ updated_resources # <<>>

\* C4: for a resource whose record is blocked every update_resource call
\* returns "blocked", no output record is written and no version of the
\* resource enters the change-set.
C4_BlockedRejectsAll ==
    \A rid \in ResourceIds :
        (collection[rid] # NoRecord /\ collection[rid].status = "blocked")
        => /\ dist[rid] = NoRecord
           /\ \A i \in 1..Len(updated_resources) : updated_resources[i][1] # rid
           /\ (call.resource_id = rid => result = "blocked")

\* a blocked resource was offered a version it does not hold, more than once
C4_Witness ==
    \E rid \in ResourceIds :
        /\ collection[rid] # NoRecord
        /\ collection[rid].status = "blocked"
        /\ call.resource_id = rid
        /\ ~has_pair(collection[rid].versions, call)
        /\ result = "blocked"
        /\ requests >= 3

\* C9 as stated: no two entries of a persisted version list share a version_id.
C9_UniqueVersionIds ==
    \A rid \in ResourceIds :
        dist[rid] # NoRecord => unique_version_ids(dist[rid].versions)

\* a bound on the steps the scan has left: none when it has stopped, else the
\* hits left of the page and a request and the hits of each page to come
scan_steps_left ==
    IF pc \in {"scanned", "raised"} THEN 0
    ELSE IF pc = "request" THEN (11 - page) * (MaxHitsPerPage + 2)
    ELSE (10 - page) * (MaxHitsPerPage + 2) + remaining

\* C10: pages are requested in order from page 1, at most 9 of them; a page
\* is requested only after a page with status 200 and at least one hit whose
\* hits have all been merged; hits are merged only from such a page; when the
\* scan has stopped every hit of the pages fetched has been merged and nothing
\* is requested or merged any more.  The scan terminates: scan_steps_left is
\* never negative and every step of the scan makes it smaller.
C10_ScanStops ==
    /\ [](scan_steps_left >= 0)
    /\ [][scan_steps_left' < scan_steps_left]_vars
    /\ [](requests <= 9)
    /\ [](pc = "scanned" => remaining = 0)
    /\ [][requests' = requests + 1
          => (/\ page = requests + 1
              /\ pc = "request"
              /\ (requests = 0 \/ (status_code = 200 /\ n_hits > 0 /\ remaining = 0)))]_vars
    /\ [][(remaining' # remaining \/ call' # call \/ dist' # dist
              \/ updated_resources' # updated_resources)
          => (\/ (requests' = requests + 1 /\ status_code' = 200 /\ remaining' = n_hits'
                    /\ call' = call /\ dist' = dist
                    /\ updated_resources' = updated_resources)
              \/ (pc = "hits" /\ status_code = 200 /\ remaining > 0
                    /\ remaining' \in {remaining, remaining - 1}
                    /\ requests' = requests))]_vars
    /\ [][(pc \in {"scanned", "raised"}) => (UNCHANGED ingest_vars)]_vars

\* page 1 had hits, all merged; page 2 was empty; no third request
C10_Witness ==
    /\ pc = "scanned"
    /\ requests = 2
    /\ status_code = 200
    /\ n_hits = 0
    /\ call # NoCall

-----------------------------------------------------------------------------
\* Properties of the selection (under SpecSelect)

selected_ids == {limited_updated_resources[i][1] : i \in 1..Len(limited_updated_resources)}

\* C5 as stated: at most max_resource_count resources are returned, and the
\* minimum `created` of every returned resource is <= that of every updated
\* resource that is not returned.
C5_OldestFirstOverAllExcluded ==
    pc = "selected" =>
        /\ Len(limited_updated_resources) <= max_resource_count
        /\ \A i \in 1..Len(limited_updated_resources) :
             \A j \in 1..Len(updated_resources) :
                updated_resources[j][1] \notin selected_ids
                => min_created(limited_updated_resources[i][2])
                      <= min_created(updated_resources[j][2])

\* C5, amended: ... <= that of every updated resource that is not returned
\* and has no auto-update-<resource_id> branch yet.  The minimum is taken
\* here as "no new version is older".
C5_OldestFirstOverCapped ==
    pc = "selected" =>
        /\ Len(limited_updated_resources) <= max_resource_count
        /\ \A i \in 1..Len(limited_updated_resources) :
             \A j \in 1..Len(updated_resources) :
                (/\ updated_resources[j][1] \notin selected_ids
                 /\ auto_update_branch(updated_resources[j][1]) \notin remote_branches)
                => \E a \in 1..Len(limited_updated_resources[i][2]) :
                      \A b \in 1..Len(updated_resources[j][2]) :
                         limited_updated_resources[i][2][a].created
                            <= updated_resources[j][2][b].created

\* a resource is returned, one is cut by the count and one has a branch
C5_Witness ==
    /\ pc = "selected"
    /\ Len(limited_updated_resources) = 1
    /\ max_resource_count = 2
    /\ Len(updated_resources) = 3
    /\ \E j \in 1..3 : auto_update_branch(updated_resources[j][1]) \in remote_branches
    /\ \E j \in 1..3 :
          /\ updated_resources[j][1] \notin selected_ids
          /\ auto_update_branch(updated_resources[j][1]) \notin remote_branches
          /\ min_created(updated_resources[j][2])
                > min_created(limited_updated_resources[1][2])

-----------------------------------------------------------------------------
\* Properties of the aggregation (under SpecAgg)

r_from_preview ==
    r.status = "accepted" /\ from_preview_of(r.resource_id, gh_remote_branches)

\* the catalog entries of a resource, as (type, position) pairs
entries_of(att, resource_id) ==
    {<<t, k>> \in Types \X (1..3) :
        /\ att[t].kind = "list"
        /\ k <= Len(att[t].items)
        /\ att[t].items[k].resource_id = resource_id}

occurrences(s, x) == Cardinality({k \in 1..Len(s) : s[k] = x})

\* C6 as stated: an accepted resource with a preview branch and two accepted
\* versions, one published in gh-pages only and one published in the preview,
\* both mappings of a type the template lists, gets exactly one catalog entry,
\* and its previous_versions has length 1.
C6_CanonicalVersionKept ==
    (/\ r_from_preview
     /\ Len(r.versions) = 2
     /\ \A i \in 1..2 : r.versions[i].status = "accepted"
     /\ \E i, j \in 1..2 :
           /\ i # j
           /\ gh_pages[i].kind = "dict"
           /\ gh_pages_previews[i].kind = "missing"
           /\ gh_pages_previews[j].kind = "dict"
           /\ attachments[type_of(gh_pages[i])].kind = "list")
    => /\ Cardinality(entries_of(attachments, r.resource_id)) = 1
       /\ \A e \in entries_of(attachments, r.resource_id) :
             Len(attachments[e[1]].items[e[2]].previous_versions) = 1

\* C7 as stated: a preview branch is in the reported list of processed
\* previews at most once, and exactly once if an accepted version of its
\* resource was taken from it.
C7_PreviewReportedOnce ==
    step_output # None =>
        /\ \A i \in 1..Len(known_resources) :
              occurrences(step_output.processed_gh_pages_previews,
                          preview_branch_of(known_resources[i])) <= 1
        /\ (/\ r_from_preview
            /\ \E i \in 1..Len(r.versions) :
                  /\ r.versions[i].status = "accepted"
                  /\ gh_pages_previews[i].kind = "dict")
           => occurrences(step_output.processed_gh_pages_previews,
                          preview_branch_of(r.resource_id)) = 1

\* C8: when the loop has passed a resource: if it is accepted, has an accepted
\* version, the rdf.yaml read for each accepted version is a mapping and the
\* template lists the type of the first, then exactly one entry is appended
\* to that type's bucket: the first accepted version with resource_id and, as
\* previous_versions, the other accepted versions in list order; the type's
\* resource count grows by 1 and its version count by the number of accepted
\* versions.  If no accepted version's rdf.yaml is a mapping (or the resource
\* is not accepted), the catalog and the counts stay as they are.
C8_OneEntryPerResource ==
    [][known_idx' = known_idx + 1 =>
        LET rr == r'
            fp == rr.status = "accepted"
                  /\ from_preview_of(rr.resource_id, gh_remote_branches)
            idx == SelectSeq([i \in 1..Len(rr.versions) |-> i],
                             LAMBDA i : rr.versions[i].status = "accepted")
            content(i) == IF fp THEN gh_pages_previews'[i] ELSE gh_pages'[i]
            all_resolve ==
                /\ rr.status = "accepted"
                /\ idx # <<>>
                /\ \A k \in 1..Len(idx) : content(idx[k]).kind = "dict"
            none_resolve ==
                \/ rr.status # "accepted"
                \/ \A k \in 1..Len(idx) : content(idx[k]).kind # "dict"
            first == content(idx[1])
            t == IF first.type = NoType THEN "unknown" ELSE first.type
            entry == [kind |-> "dict", type |-> first.type, rdf |-> first.rdf,
                      resource_id |-> rr.resource_id,
                      previous_versions |->
                          [k \in 1..(Len(idx) - 1) |-> content(idx[k + 1])]]
        IN /\ (all_resolve /\ attachments[t].kind = "list")
              => /\ attachments' =
                       [attachments EXCEPT
                           ![t] = [kind |-> "list", items |-> Append(@.items, entry)]]
                 /\ Cardinality(entries_of(attachments', rr.resource_id)) = 1
                 /\ n_accepted' = [n_accepted EXCEPT ![t] = @ + 1]
                 /\ n_accepted_versions' =
                       [n_accepted_versions EXCEPT ![t] = @ + Len(idx)]
           /\ none_resolve
              => UNCHANGED <<attachments, n_accepted, n_accepted_versions>>]_vars

\* three accepted versions, all read as mappings: one entry with two previous
\* versions, in list order, and a version count of 3
C8_Witness ==
    /\ r.status = "accepted"
    /\ Len(r.versions) = 3
    /\ \A i \in 1..3 : r.versions[i].status = "accepted"
    /\ latest_version # None
    /\ latest_version.rdf[2] = r.versions[1].version_id
    /\ Len(latest_version.previous_versions) = 2
    /\ latest_version.previous_versions[1].rdf[2] = r.versions[2].version_id
    /\ latest_version.previous_versions[2].rdf[2] = r.versions[3].version_id
    /\ attachments[type_of(latest_version)].kind = "list"
    /\ entries_of(attachments, r.resource_id) # {}
    /\ n_accepted[type_of(latest_version)] = 1
    /\ n_accepted_versions[type_of(latest_version)] = 3

====
